---- MODULE Spec2Model ----
(***************************************************************************)
(* G4PeriodicBoundaryProcess: the periodic boundary process of g4pbc.      *)
(*                                                                         *)
(* The process object (its four configuration booleans, theStatus, the     *)
(* scratch vectors and fParticleChange) and the objects it is handed or    *)
(* reaches through singletons (track, step, hyper-step, navigator,         *)
(* trajectory, exception handler) are the state.  The stepping loop calls  *)
(* GetMeanFreePath and then, because the condition is Forced, PostStepDoIt.*)
(*                                                                         *)
(* Vector components are fixed-point numbers: One stands for 1.0, so       *)
(* <<3, 4, 0>> is the unit vector (0.6, 0.8, 0).  Every component of a     *)
(* direction or a normal lies in -One..One, where abs(double) and the C    *)
(* abs(int) overload agree on the test  abs(c) == 1.  Step lengths are in  *)
(* units of half of kCarTolerance.                                         *)
(*                                                                         *)
(* G4Exception with severity EventMustBeAborted hands the code to the      *)
(* exception handler, which marks the event aborted, and returns: the      *)
(* statements after it are executed.                                       *)
(***************************************************************************)
EXTENDS Integers, Sequences, FiniteSets

VARIABLES
  periodic_x, periodic_y, periodic_z, reflecting_walls, \* configuration
  theStatus,
  OldMomentum, OldPolarization, OldPosition,
  NewMomentum, NewPolarization, NewPosition,
  theGlobalNormal,
  fParticleChange,    \* the change object PostStepDoIt returns
  aTrack,             \* the G4Track handed to the process
  aStep,              \* the G4Step handed to the process
  hStep,              \* G4ParallelWorldProcess::GetHyperStep(), or NULL
  navigator,          \* the navigator: its exit normal answer, the located point
  trajectory,         \* the tracking manager's trajectory, or NULL
  raised,             \* codes handed to G4Exception in this event
  condition,          \* the G4ForceCondition of the current step
  depth,              \* local of PostStepDoIt (line 140), -1 while not set
  Surface,            \* local of PostStepDoIt (line 133): level found, or NULL
  calls               \* PostStepDoIt invocations so far

vars == << periodic_x, periodic_y, periodic_z, reflecting_walls, theStatus,
           OldMomentum, OldPolarization, OldPosition, NewMomentum,
           NewPolarization, NewPosition, theGlobalNormal, fParticleChange,
           aTrack, aStep, hStep, navigator, trajectory, raised, condition,
           depth, Surface, calls >>

----------------------------------------------------------------------------
(* Bounds and program constants *)

MaxCalls == 2
MaxDepth == 2

One == 5
kCarTolerance == 2

NULL == <<>>
NotProposed == <<>>

----------------------------------------------------------------------------
(* G4ThreeVector arithmetic *)

Abs(a) == IF a < 0 THEN -a ELSE a

Neg(v) == << -v[1], -v[2], -v[3] >>

\* a * b, in units of 1/One^2
Dot(a, b) == a[1] * b[1] + a[2] * b[2] + a[3] * b[3]

Mag2(v) == Dot(v, v)

\* round(|c| * One / sqrt(m)) for m > 0
UnitComponent(c, m) ==
  LET k == CHOOSE k \in 0..One :
             /\ (k = 0 \/ (2 * k - 1) * (2 * k - 1) * m <= 4 * c * c * One * One)
             /\ (k = One \/ (2 * k + 1) * (2 * k + 1) * m > 4 * c * c * One * One)
  IN IF c < 0 THEN -k ELSE k

\* Hep3Vector::unit(): the zero vector is returned as it is
Unit(v) ==
  IF Mag2(v) = 0 THEN v
  ELSE << UnitComponent(v[1], Mag2(v)), UnitComponent(v[2], Mag2(v)),
          UnitComponent(v[3], Mag2(v)) >>

\* a - (2 * (a . n)) * n; the division is exact for every normal with a
\* component of magnitude One and the others in {-One, 0, One}
Reflect(a, n) ==
  << a[1] - (2 * Dot(a, n) * n[1]) \div (One * One),
     a[2] - (2 * Dot(a, n) * n[2]) \div (One * One),
     a[3] - (2 * Dot(a, n) * n[3]) \div (One * One) >>

\* -a + (2 * (a . n)) * n
ReflectPolarization(a, n) ==
  << -a[1] + (2 * Dot(a, n) * n[1]) \div (One * One),
     -a[2] + (2 * Dot(a, n) * n[2]) \div (One * One),
     -a[3] + (2 * Dot(a, n) * n[3]) \div (One * One) >>

SetComponent(v, i, c) == [v EXCEPT ![i] = c]

----------------------------------------------------------------------------
(* Touchable history: volumes[1] is the world, volumes[depth + 1] the      *)
(* current volume; a volume is TRUE when its logical volume has a skin     *)
(* surface.                                                                *)

GetHistoryDepth(touchable) == touchable.depth

GetVolume(touchable) == touchable.volumes[touchable.depth + 1]

MoveUpHistory(touchable) ==
  [touchable EXCEPT !.depth = IF @ > 0 THEN @ - 1 ELSE 0]

\* the for loop of lines 142-152, entered at iteration i
RECURSIVE Walk(_, _, _)
Walk(touchable, i, d) ==
  IF i >= d THEN [Surface |-> NULL, touchable |-> touchable]
  ELSE IF GetVolume(touchable)
       THEN [Surface |-> << touchable.depth >>, touchable |-> touchable]
       ELSE Walk(MoveUpHistory(touchable), i + 1, d)

----------------------------------------------------------------------------
(* Inputs *)

Booleans == {TRUE, FALSE}

Momenta == { << -One, 0, 0 >>, << 3, 4, 0 >> }

Polarizations == { << 0, 0, 0 >>, << 3, 0, 0 >>, << 0, -4, 3 >> }

\* zero, half the tolerance, and above it
StepLengths == {0, 1, 2}

StepStatuses == {"fGeomBoundary", "fPostStepDoItProc"}

Positions == { << 7, -2, 3 >>, << -7, 0, 4 >> }

Normals == { << One, 0, 0 >>, << -One, 0, 0 >>, << 0, One, 0 >>, << 0, 0, -One >>,
             << One, One, 0 >>, << 0, One, One >>, << 3, 4, 0 >>, << 0, 0, 0 >> }

VolumeLists == UNION { [1..n -> Booleans] : n \in 1..(MaxDepth + 1) }

Touchables == { [volumes |-> vs, depth |-> Len(vs) - 1] : vs \in VolumeLists }

Steps == [status : StepStatuses, position : Positions, touchable : Touchables]

\* the hyper-step of a parallel world: a step of its own
HyperSteps ==
  { [status |-> s, position |-> << 2, 7, -7 >>,
     touchable |-> [volumes |-> vs, depth |-> Len(vs) - 1]] :
    s \in StepStatuses, vs \in { << FALSE, TRUE >>, << TRUE, FALSE >> } }

\* the steps that come with a hyper-step
StepsUnderHyper ==
  { st \in Steps : st.position = << 7, -2, 3 >> /\ st.touchable.volumes = << TRUE >> }

\* (aStep, hStep) as the stepping loop leaves them
StepPairs ==
  { << st, NULL >> : st \in Steps }
    \cup { << st, << h >> >> : st \in StepsUnderHyper, h \in HyperSteps }

Tracks == [momentum : Momenta, polarization : Polarizations,
           stepLength : StepLengths]

NoChange ==
  [momentum |-> NotProposed, polarization |-> NotProposed, position |-> NotProposed]

\* G4ParticleChangeForPeriodic::InitializeForPostStep: nothing proposed yet
InitializeForPostStep(track) == NoChange

----------------------------------------------------------------------------
(* The process *)

Init ==
  /\ periodic_x \in Booleans
  /\ periodic_y \in Booleans
  /\ periodic_z \in Booleans
  /\ reflecting_walls \in Booleans
  /\ theStatus = "Undefined"
  /\ OldMomentum = << 0, 0, 0 >>
  /\ OldPolarization = << 0, 0, 0 >>
  /\ OldPosition = << 0, 0, 0 >>
  /\ NewMomentum = << 0, 0, 0 >>
  /\ NewPolarization = << 0, 0, 0 >>
  /\ NewPosition = << 0, 0, 0 >>
  /\ theGlobalNormal = << 0, 0, 0 >>
  /\ fParticleChange = NoChange
  /\ aTrack \in Tracks
  /\ \E pair \in StepPairs : aStep = pair[1] /\ hStep = pair[2]
  /\ navigator \in [exitNormal : Normals, valid : Booleans, located : {NULL}]
  /\ trajectory \in {NULL, << << >> >>}
  /\ raised = {}
  /\ condition = "NotForced"
  /\ depth = -1
  /\ Surface = NULL
  /\ calls = 0

\* lines 244-250: the mean free path is infinite and the DoIt is forced
GetMeanFreePath ==
  /\ condition' = "Forced"
  /\ UNCHANGED << periodic_x, periodic_y, periodic_z, reflecting_walls, theStatus,
                  OldMomentum, OldPolarization, OldPosition, NewMomentum,
                  NewPolarization, NewPosition, theGlobalNormal, fParticleChange,
                  aTrack, aStep, hStep, navigator, trajectory, raised,
                  depth, Surface, calls >>

\* the hyper-step ignored
EffectiveStepNominal(step, hyper) == step

\* lines 47-51: the hyper-step, when there is one, replaces the step
EffectiveStep(step, hyper) == IF hyper # NULL THEN hyper[1] ELSE step

\* line 53
IsOnBoundary(pStep) == pStep.status = "fGeomBoundary"

\* < in place of <=
IsStepTooSmallStrict(track) == 2 * track.stepLength < kCarTolerance

\* line 71: aTrack.GetStepLength() <= kCarTolerance/2
IsStepTooSmall(track) == 2 * track.stepLength <= kCarTolerance

\* lines 103-128: the navigator's normal, negated when valid, and turned
\* against the incoming momentum
GlobalNormal(momentum, nav) ==
  LET n == IF nav.valid THEN Neg(nav.exitNormal) ELSE nav.exitNormal
  IN IF Dot(momentum, n) > 0 THEN Neg(n) ELSE n

\* lines 105-115: G4Exception with EventMustBeAborted records the code, marks
\* the event for abortion and returns to its caller
RaisedForNormal(nav, codes) ==
  IF nav.valid THEN codes ELSE codes \cup {"PerBoun01"}

\* lines 159-160
on_plane(n) == Abs(n[1]) = One \/ Abs(n[2]) = One \/ Abs(n[3]) = One

\* lines 171-173
on_x_and_periodic(n, per_x) == Abs(n[1]) = One /\ per_x
on_y_and_periodic(n, per_y) == Abs(n[2]) = One /\ per_y
on_z_and_periodic(n, per_z) == Abs(n[3]) = One /\ per_z

\* the three booleans ignored
on_any_plane(n, per_x, per_y, per_z) == on_plane(n)

\* lines 175-176
on_a_periodic_plane(n, per_x, per_y, per_z) ==
  \/ on_x_and_periodic(n, per_x)
  \/ on_y_and_periodic(n, per_y)
  \/ on_z_and_periodic(n, per_z)

\* three ifs in place of the if / else if chain
TranslateEach(position, n, per_x, per_y, per_z) ==
  << IF on_x_and_periodic(n, per_x) THEN -position[1] ELSE position[1],
     IF on_y_and_periodic(n, per_y) THEN -position[2] ELSE position[2],
     IF on_z_and_periodic(n, per_z) THEN -position[3] ELSE position[3] >>

\* lines 213-217
Translate(position, n, per_x, per_y, per_z) ==
  IF on_x_and_periodic(n, per_x) THEN SetComponent(position, 1, -position[1])
  ELSE IF on_y_and_periodic(n, per_y) THEN SetComponent(position, 2, -position[2])
  ELSE IF on_z_and_periodic(n, per_z) THEN SetComponent(position, 3, -position[3])
  ELSE position

\* fpTrajectory->AppendStep(pStep), line 232
AppendStep(traj, pStep) ==
  IF traj = NULL THEN traj ELSE << Append(traj[1], pStep.position) >>

\* what is left of the call once the walk is done (lines 154-239)
Outcome(n, found) ==
  IF found = NULL THEN "ordinary"
  ELSE IF ~on_plane(n) THEN "not_on_plane"
  ELSE IF ~on_a_periodic_plane(n, periodic_x, periodic_y, periodic_z) THEN "not_periodic"
  ELSE IF reflecting_walls THEN "reflect"
  ELSE "cycle"

\* lines 55-59 and 71-75: the base class's PostStepDoIt re-initialises and
\* returns the change object
ReturnEarly(status) ==
  /\ theStatus' = status
  /\ fParticleChange' = InitializeForPostStep(aTrack)
  /\ depth' = -1
  /\ Surface' = NULL
  /\ UNCHANGED << OldMomentum, OldPolarization, OldPosition, NewMomentum,
                  NewPolarization, NewPosition, theGlobalNormal, aStep, hStep,
                  navigator, trajectory, raised >>

\* lines 77-239
Crossing(pStep) ==
  LET n == GlobalNormal(aTrack.momentum, navigator)
      walk == Walk(pStep.touchable, 0, GetHistoryDepth(pStep.touchable))
      outcome == Outcome(n, walk.Surface)
      moved == [pStep EXCEPT !.touchable = walk.touchable]
      position == IF outcome = "cycle"
                  THEN Translate(pStep.position, n, periodic_x, periodic_y, periodic_z)
                  ELSE pStep.position
      momentum == Unit(Reflect(aTrack.momentum, n))
      polarization == Unit(ReflectPolarization(aTrack.polarization, n))
  IN /\ OldMomentum' = aTrack.momentum
     /\ OldPolarization' = aTrack.polarization
     /\ OldPosition' = pStep.position
     /\ NewPosition' = position
     /\ theGlobalNormal' = n
     /\ depth' = GetHistoryDepth(pStep.touchable)
     /\ Surface' = walk.Surface
     /\ IF hStep # NULL
        THEN hStep' = << moved >> /\ aStep' = aStep
        ELSE aStep' = moved /\ hStep' = hStep
     /\ raised' = IF outcome = "not_on_plane"
                  THEN RaisedForNormal(navigator, raised) \cup {"Periodic01"}
                  ELSE RaisedForNormal(navigator, raised)
     /\ theStatus' = IF outcome = "reflect" THEN "Reflection"
                     ELSE IF outcome = "cycle" THEN "Cycling"
                     ELSE "Undefined"
     /\ NewMomentum' = IF outcome = "reflect" THEN momentum ELSE NewMomentum
     /\ NewPolarization' = IF outcome = "reflect" THEN polarization
                           ELSE NewPolarization
     /\ fParticleChange' =
          IF outcome = "reflect"
          THEN [InitializeForPostStep(aTrack) EXCEPT !.momentum = momentum,
                                                     !.polarization = polarization]
          ELSE IF outcome = "cycle"
          THEN [InitializeForPostStep(aTrack) EXCEPT !.position = position]
          ELSE InitializeForPostStep(aTrack)
     /\ navigator' = IF outcome = "cycle"
                     THEN [navigator EXCEPT !.located = << position >>]
                     ELSE navigator
     /\ trajectory' = IF outcome = "cycle" THEN AppendStep(trajectory, pStep)
                      ELSE trajectory

PostStepDoIt ==
  /\ condition = "Forced"
  /\ calls < MaxCalls
  /\ calls' = calls + 1
  /\ UNCHANGED << periodic_x, periodic_y, periodic_z, reflecting_walls, aTrack,
                  condition >>
  /\ LET pStep == EffectiveStep(aStep, hStep)
     IN IF ~IsOnBoundary(pStep) THEN ReturnEarly("NotAtBoundary")
        ELSE IF IsStepTooSmall(aTrack) THEN ReturnEarly("StepTooSmall")
        ELSE Crossing(pStep)

Next == GetMeanFreePath \/ PostStepDoIt

Spec == Init /\ [][Next]_vars

----------------------------------------------------------------------------
(* What the properties speak about.  A state with calls > 0 is the state   *)
(* PostStepDoIt returned in; the track, the navigator's answer and the     *)
(* step's status and position are still those of that call, and depth is   *)
(* the history depth the walk of that call started from.                   *)

Called == calls > 0

TheStep == IF hStep = NULL THEN aStep ELSE hStep[1]

EndsOnBoundary == TheStep.status = "fGeomBoundary"

LengthAtMostHalfTolerance == 2 * aTrack.stepLength <= kCarTolerance

\* the call went past both early returns
Crossed == Called /\ EndsOnBoundary /\ ~LengthAtMostHalfTolerance

NothingProposed ==
  /\ fParticleChange.momentum = NotProposed
  /\ fParticleChange.polarization = NotProposed
  /\ fParticleChange.position = NotProposed

NoPeriodicAction == theStatus \notin {"Reflection", "Cycling"}

\* levels (0 is the world) of the chain the call started from that are tagged
TaggedLevels == { l \in 0..depth : TheStep.touchable.volumes[l + 1] }

Innermost(levels) == CHOOSE l \in levels : \A m \in levels : m <= l

AlignedAxes == { i \in 1..3 : Abs(navigator.exitNormal[i]) = One }

Enabled(i) == IF i = 1 THEN periodic_x ELSE IF i = 2 THEN periodic_y ELSE periodic_z

First(axes) == CHOOSE i \in axes : \A j \in axes : i <= j

Negated(v, i) ==
  << IF i = 1 THEN -v[1] ELSE v[1], IF i = 2 THEN -v[2] ELSE v[2],
     IF i = 3 THEN -v[3] ELSE v[3] >>

\* v with every component but the i-th negated
NegatedButFor(v, i) == Negated(Neg(v), i)

\* a valid normal along one axis, and that axis
NormalAlong(i) == navigator.valid /\ AlignedAxes = {i}

----------------------------------------------------------------------------
(* C1 *)

\* C1, as stated: after a call for a step no longer than half the surface
\* tolerance nothing is proposed and the status is StepTooSmall.
C1_StepTooSmallAlways ==
  (Called /\ LengthAtMostHalfTolerance)
    => (NothingProposed /\ theStatus = "StepTooSmall")

\* C1, amended: after a call for a step that ended on a geometric boundary
\* and is no longer than half the surface tolerance, nothing is proposed and
\* the status is StepTooSmall, whatever the tagging and the four booleans; a
\* short step that did not end on a boundary leaves NotAtBoundary.
C1_StepTooSmallOnBoundary ==
  /\ (Called /\ EndsOnBoundary /\ LengthAtMostHalfTolerance)
       => (NothingProposed /\ theStatus = "StepTooSmall")
  /\ (Called /\ ~EndsOnBoundary /\ LengthAtMostHalfTolerance)
       => (NothingProposed /\ theStatus = "NotAtBoundary")

C1_Witness ==
  /\ Called /\ EndsOnBoundary /\ aTrack.stepLength = 1
  /\ theStatus = "StepTooSmall"
  /\ TheStep.touchable.volumes[Len(TheStep.touchable.volumes)]
  /\ periodic_x /\ navigator.valid /\ navigator.exitNormal = << One, 0, 0 >>

----------------------------------------------------------------------------
(* C2 *)

\* C2: after a call for a step whose post-step point is not on a geometric
\* boundary, nothing is proposed, the navigator is not relocated, nothing is
\* appended to the trajectory, the touchable is where it was, no exception
\* was raised and the status is NotAtBoundary.
C2_NotAtBoundary ==
  (Called /\ ~EndsOnBoundary)
    => /\ NothingProposed
       /\ theStatus = "NotAtBoundary"
       /\ navigator.located = NULL
       /\ trajectory \in {NULL, << << >> >>}
       /\ TheStep.touchable.depth = Len(TheStep.touchable.volumes) - 1
       /\ raised = {}

C2_Witness ==
  /\ Called /\ ~EndsOnBoundary /\ theStatus = "NotAtBoundary"
  /\ hStep # NULL /\ aStep.status = "fGeomBoundary"
  /\ aTrack.stepLength = 2
  /\ periodic_x /\ navigator.valid /\ navigator.exitNormal = << One, 0, 0 >>

----------------------------------------------------------------------------
(* C3 *)

\* C3: wrap mode, a step that crossed, a tagged volume on the chain from the
\* current volume to the world, a valid normal along one enabled axis: the
\* proposed position is the post-step position with that coordinate negated,
\* no momentum or polarization is proposed and the status is Cycling.
C3_Wrap ==
  \A i \in 1..3 :
    (Crossed /\ ~reflecting_walls /\ TaggedLevels # {} /\ NormalAlong(i) /\ Enabled(i))
      => /\ fParticleChange.position = Negated(TheStep.position, i)
         /\ fParticleChange.momentum = NotProposed
         /\ fParticleChange.polarization = NotProposed
         /\ theStatus = "Cycling"

\* the same with the tag on a volume below the world
C3_WrapBelowWorld ==
  \A i \in 1..3 :
    (Crossed /\ ~reflecting_walls /\ TaggedLevels \ {0} # {} /\ NormalAlong(i)
       /\ Enabled(i))
      => /\ fParticleChange.position = Negated(TheStep.position, i)
         /\ fParticleChange.momentum = NotProposed
         /\ fParticleChange.polarization = NotProposed
         /\ theStatus = "Cycling"
         /\ navigator.located = << fParticleChange.position >>

----------------------------------------------------------------------------
(* C4 *)

\* C4: reflect mode, a step that crossed, a tagged volume on the chain, a
\* valid normal along one enabled axis: the proposed momentum is the old one
\* with that component flipped, the proposed polarization is
\* -old + 2 (old . normal) normal, no position is proposed and the status is
\* Reflection.
C4_Reflect ==
  \A i \in 1..3 :
    (Crossed /\ reflecting_walls /\ TaggedLevels # {} /\ NormalAlong(i) /\ Enabled(i))
      => /\ fParticleChange.momentum = Negated(aTrack.momentum, i)
         /\ fParticleChange.polarization = NegatedButFor(aTrack.polarization, i)
         /\ fParticleChange.position = NotProposed
         /\ theStatus = "Reflection"

\* the same with the tag below the world and the polarization renormalised
C4_ReflectBelowWorld ==
  \A i \in 1..3 :
    (Crossed /\ reflecting_walls /\ TaggedLevels \ {0} # {} /\ NormalAlong(i)
       /\ Enabled(i))
      => /\ fParticleChange.momentum = Negated(aTrack.momentum, i)
         /\ fParticleChange.polarization = Unit(NegatedButFor(aTrack.polarization, i))
         /\ fParticleChange.position = NotProposed
         /\ theStatus = "Reflection"

\* below the world, the polarization as C4 has it: refuted by a polarization
\* that is neither zero nor of unit length
C4_ReflectBelowWorldExact ==
  \A i \in 1..3 :
    (Crossed /\ reflecting_walls /\ TaggedLevels \ {0} # {} /\ NormalAlong(i)
       /\ Enabled(i))
      => fParticleChange.polarization = NegatedButFor(aTrack.polarization, i)

----------------------------------------------------------------------------
(* C5 *)

\* C5: the lookup covers the chain from the current volume to the world, the
\* world included: with a tagged volume on it the walk finds the innermost
\* one and the periodic action is applied, and only with none is the crossing
\* an ordinary one.
C5_WholeChain ==
  \A i \in 1..3 :
    (Crossed /\ NormalAlong(i) /\ Enabled(i))
      => /\ TaggedLevels # {}
              => (Surface = << Innermost(TaggedLevels) >> /\ ~NoPeriodicAction)
         /\ TaggedLevels = {}
              => (Surface = NULL /\ NoPeriodicAction /\ NothingProposed)

\* the chain the walk does cover: every level but the world
C5_ChainBelowWorld ==
  \A i \in 1..3 :
    (Crossed /\ NormalAlong(i) /\ Enabled(i))
      => /\ TaggedLevels \ {0} # {}
              => (Surface = << Innermost(TaggedLevels) >> /\ ~NoPeriodicAction)
         /\ TaggedLevels \ {0} = {}
              => (Surface = NULL /\ NoPeriodicAction /\ NothingProposed)

----------------------------------------------------------------------------
(* C6 *)

\* C6: a step that crossed at a tagged volume with a normal, reported valid,
\* no component of which has magnitude one: the exception Periodic01 is
\* raised, nothing is proposed and the status is neither Reflection nor
\* Cycling.
C6_NotOnPlane ==
  (Crossed /\ TaggedLevels # {} /\ navigator.valid /\ AlignedAxes = {})
    => ("Periodic01" \in raised /\ NothingProposed /\ NoPeriodicAction)

\* the same with the tag on a volume below the world, for any normal
C6_NotOnPlaneBelowWorld ==
  (Crossed /\ TaggedLevels \ {0} # {} /\ AlignedAxes = {})
    => ("Periodic01" \in raised /\ NothingProposed /\ NoPeriodicAction)

----------------------------------------------------------------------------
(* C7 *)

\* C7: a step that crossed while the navigator reports its normal invalid:
\* the exception PerBoun01 is raised and the normal is not used: nothing is
\* proposed, the navigator is not relocated and the status is neither
\* Reflection nor Cycling.
C7_InvalidNormal ==
  (Crossed /\ ~navigator.valid)
    => /\ "PerBoun01" \in raised
       /\ NothingProposed
       /\ navigator.located = NULL
       /\ NoPeriodicAction

\* the exception itself is always raised
C7_InvalidNormalRaises ==
  (Crossed /\ ~navigator.valid) => "PerBoun01" \in raised

----------------------------------------------------------------------------
(* C8 *)

\* C8: a step that crossed at a tagged volume with a valid normal along one
\* axis whose boolean is off, in either mode: nothing is proposed, no
\* exception is raised, the navigator is not relocated, nothing is appended
\* to the trajectory and the status is neither Reflection nor Cycling.
C8_DisabledAxis ==
  \A i \in 1..3 :
    (Crossed /\ TaggedLevels # {} /\ NormalAlong(i) /\ ~Enabled(i))
      => /\ NothingProposed
         /\ raised = {}
         /\ navigator.located = NULL
         /\ trajectory \in {NULL, << << >> >>}
         /\ NoPeriodicAction

C8_Witness ==
  /\ Crossed /\ Surface # NULL /\ NormalAlong(2)
  /\ periodic_x /\ ~periodic_y /\ periodic_z
  /\ NothingProposed /\ theStatus = "Undefined"

----------------------------------------------------------------------------
(* C9 *)

----------------------------------------------------------------------------
(* C10 *)

\* C10: no step of the process changes the track or the steps it was handed,
\* the touchable of the pre-step point included.
C10_InputsReadOnly ==
  [][aTrack' = aTrack /\ aStep' = aStep /\ hStep' = hStep]_vars

\* what a call does leave alone: the track, and of the step everything but
\* the level its touchable stands at
C10_OnlyTouchableMoves ==
  [][/\ aTrack' = aTrack
     /\ aStep'.status = aStep.status /\ aStep'.position = aStep.position
     /\ aStep'.touchable.volumes = aStep.touchable.volumes
     /\ aStep'.touchable.depth <= aStep.touchable.depth]_vars

====
